---- MODULE Spec2Model ----
(***************************************************************************)
(* Model of src/src/CommonsMathInterpolation.ts: the four interpolator     *)
(* constructors, the evaluators they return, the batch cubic query and the *)
(* array utilities.                                                        *)
(*                                                                         *)
(* Numbers.  A JavaScript number is modelled as an exact rational <<n, d>> *)
(* in lowest terms with d > 0, or as NaN == <<0, 0>>.  Arithmetic is exact *)
(* (no round-off); NaN propagates through every operation and every        *)
(* comparison with NaN is false, as in IEEE-754.                           *)
(***************************************************************************)
EXTENDS Integers, Sequences, FiniteSets, TLC

VARIABLES x, y, xq, ev, err, q, res, op

vars == <<x, y, xq, ev, err, q, res, op>>

-----------------------------------------------------------------------------
(* Bounds of the model *)

\* sample abscissae are the integers 0..MaxX
MaxX == 4
\* sample ordinates are the integers 0..MaxY
MaxY == 1
\* longest query array handed to cubicSplineInterpolate
MaxBatch == 1

-----------------------------------------------------------------------------
(* Numbers *)

NaN == <<0, 0>>

IsNaN(a) == a[2] = 0

Abs(i) == IF i < 0 THEN -i ELSE i

RECURSIVE GCD(_, _)
GCD(a, b) == IF b = 0 THEN a ELSE GCD(b, a % b)

\* the number n/d (d # 0) in lowest terms
Rat(n, d) ==
  LET g == GCD(Abs(n), Abs(d))
      s == IF d < 0 THEN -1 ELSE 1
  IN  <<(s * n) \div g, (s * d) \div g>>

\* the integer i as a number
Num(i) == <<i, 1>>

Add(a, b) == IF IsNaN(a) \/ IsNaN(b) THEN NaN
             ELSE Rat(a[1] * b[2] + b[1] * a[2], a[2] * b[2])

Sub(a, b) == IF IsNaN(a) \/ IsNaN(b) THEN NaN
             ELSE Rat(a[1] * b[2] - b[1] * a[2], a[2] * b[2])

Mul(a, b) == IF IsNaN(a) \/ IsNaN(b) THEN NaN
             ELSE Rat(a[1] * b[1], a[2] * b[2])

\* a / b; a zero divisor does not occur for validated sample sets (the
\* interval widths and the pivots are positive), it is mapped to NaN
Div(a, b) == IF IsNaN(a) \/ IsNaN(b) \/ b[1] = 0 THEN NaN
             ELSE Rat(a[1] * b[2], a[2] * b[1])

\* a < b, a <= b, a == b of JavaScript: false when an operand is NaN
Lt(a, b) == ~IsNaN(a) /\ ~IsNaN(b) /\ a[1] * b[2] < b[1] * a[2]
Le(a, b) == ~IsNaN(a) /\ ~IsNaN(b) /\ a[1] * b[2] <= b[1] * a[2]
Eq(a, b) == ~IsNaN(a) /\ ~IsNaN(b) /\ a[1] * b[2] = b[1] * a[2]

\* Math.abs
MathAbs(a) == <<Abs(a[1]), a[2]>>

\* Math.abs(a) < EPSILON with EPSILON = 2^-52: |n|/d < 2^-52 iff
\* |n| * 2^52 < d iff |n| <= (d - 1) div 2^52, computed in two steps
TwoPow26 == 67108864
LtEpsilon(a) == ~IsNaN(a) /\ Abs(a[1]) <= ((a[2] - 1) \div TwoPow26) \div TwoPow26

\* a[i] of a Float64Array with a 0-based index; an index outside the array
\* reads undefined, which every arithmetic operation turns into NaN
At(a, i) == IF i >= 0 /\ i < Len(a) THEN a[i + 1] ELSE NaN

-----------------------------------------------------------------------------
(* Arrays.  The caller owns two arrays, x and y.  A reference to an array   *)
(* is a record: ref = "x" or "y" names the caller's array, ref = "own" is   *)
(* an array owned by the module whose elements are in val.                  *)

CallerX == [ref |-> "x", val |-> <<>>]
CallerY == [ref |-> "y", val |-> <<>>]

\* the elements of the array a reference points to, the caller's arrays
\* being cx and cy
Deref(h, cx, cy) ==
  IF h.ref = "x" THEN cx ELSE IF h.ref = "y" THEN cy ELSE h.val

\* no copy: the reference passed in is kept
Slice_alias(h, cx, cy) == h

\* Float64Array.prototype.slice(): a new array with the same elements
Slice(h, cx, cy) == [ref |-> "own", val |-> Deref(h, cx, cy)]

Min(a, b) == IF a < b THEN a ELSE b
Max(a, b) == IF a > b THEN a ELSE b

-----------------------------------------------------------------------------
(* Utility functions *)

\* the loop of MathArrays_checkOrder from index on: TRUE iff it throws
RECURSIVE CheckOrderLoop(_, _, _)
CheckOrderLoop(val, index, previous) ==
  IF index < Len(val)
  THEN IF Le(At(val, index), previous) THEN TRUE
       ELSE CheckOrderLoop(val, index + 1, At(val, index))
  ELSE FALSE

\* MathArrays_checkOrder with the loop started one element late
MathArrays_checkOrder_fromSecond(val) == CheckOrderLoop(val, 2, At(val, 1))

\* TRUE iff MathArrays_checkOrder(val) throws the non-monotonic error
MathArrays_checkOrder(val) == CheckOrderLoop(val, 1, At(val, 0))

\* the loop of Arrays_binarySearch returning -low for a key not found
RECURSIVE BinarySearchLoop_noOffset(_, _, _, _)
BinarySearchLoop_noOffset(a, key, low, high) ==
  IF low <= high
  THEN LET mid    == (low + high) \div 2
           midVal == At(a, mid)
       IN  IF Lt(midVal, key) THEN BinarySearchLoop_noOffset(a, key, mid + 1, high)
           ELSE IF Lt(key, midVal) THEN BinarySearchLoop_noOffset(a, key, low, mid - 1)
           ELSE IF Eq(midVal, key) THEN [thrown |-> FALSE, i |-> mid]
           ELSE [thrown |-> TRUE, i |-> 0]
  ELSE [thrown |-> FALSE, i |-> -low]

\* the while loop of Arrays_binarySearch
RECURSIVE BinarySearchLoop(_, _, _, _)
BinarySearchLoop(a, key, low, high) ==
  IF low <= high
  THEN LET mid    == (low + high) \div 2
           midVal == At(a, mid)
       IN  IF Lt(midVal, key) THEN BinarySearchLoop(a, key, mid + 1, high)
           ELSE IF Lt(key, midVal) THEN BinarySearchLoop(a, key, low, mid - 1)
           ELSE IF Eq(midVal, key) THEN [thrown |-> FALSE, i |-> mid]
           ELSE [thrown |-> TRUE, i |-> 0]
  ELSE [thrown |-> FALSE, i |-> -(low + 1)]

\* Arrays_binarySearch(a, key): the returned index, or thrown when a
\* comparison meets NaN
Arrays_binarySearch(a, key) == BinarySearchLoop(a, key, 0, Len(a) - 1)

-----------------------------------------------------------------------------
(* Polynomial functions *)

\* the trim loop going on down to n = 0
RECURSIVE TrimLoop_toZero(_, _)
TrimLoop_toZero(c2, n) ==
  IF n > 0 /\ Eq(At(c2, n - 1), Num(0)) THEN TrimLoop_toZero(c2, n - 1) ELSE n

\* while (n > 1 && c2[n - 1] == 0) n--
RECURSIVE TrimLoop(_, _)
TrimLoop(c2, n) ==
  IF n > 1 /\ Eq(At(c2, n - 1), Num(0)) THEN TrimLoop(c2, n - 1) ELSE n

\* createPolynomialFunction(c): the closure's captured copy c2 and n;
\* thrown when c is empty
createPolynomialFunction(c) ==
  [thrown |-> Len(c) = 0, c2 |-> c, n |-> TrimLoop(c, Len(c))]

\* for (let i = n - 2; i >= 0; i--) v = x * v + c2[i]
RECURSIVE HornerLoop(_, _, _, _)
HornerLoop(c2, xv, i, v) ==
  IF i >= 0 THEN HornerLoop(c2, xv, i - 1, Add(Mul(xv, v), At(c2, i))) ELSE v

\* the function returned by createPolynomialFunction, applied to xv
PolyApply(p, xv) == HornerLoop(p.c2, xv, p.n - 2, At(p.c2, p.n - 1))

-----------------------------------------------------------------------------
(* Evaluators.  An evaluator is the closure a constructor returned:         *)
(*   kind "nan"     the n = 0 nearest-neighbour closure                     *)
(*   kind "const"   the n = 1 nearest-neighbour closure (captures ys)       *)
(*   kind "nearest" the n >= 2 nearest-neighbour closure (xs, ys, n)        *)
(*   kind "spline"  the closure of createPolynomialSplineFunction           *)
(*                  (captures xs = knots2 and polynomials)                  *)

NoArray == [ref |-> "own", val |-> <<>>]
NoEv == [kind |-> "none", xs |-> NoArray, ys |-> NoArray, polynomials |-> <<>>, n |-> 0]

\* an evaluation that returned v, and one that threw
Returned(v) == [thrown |-> FALSE, val |-> v]
Thrown == [thrown |-> TRUE, val |-> NaN]

\* the segment index taken to be the insertion point itself
SegmentIndex_insertionPoint(i, nPoly) ==
  LET j == IF i < 0 THEN -i - 1 ELSE i
  IN  Max(0, Min(j, nPoly - 1))

\* the segment index the spline closure computes from the search result
SegmentIndex(i, nPoly) ==
  LET j == IF i < 0 THEN -i - 2 ELSE i
  IN  Max(0, Min(j, nPoly - 1))

\* the spline closure evaluating the polynomial at xv itself
SplineApply_unshifted(e, cx, cy, xv) ==
  LET knots2 == Deref(e.xs, cx, cy)
      s      == Arrays_binarySearch(knots2, xv)
      i      == SegmentIndex(s.i, Len(e.polynomials))
  IN  IF s.thrown THEN Thrown
      ELSE Returned(PolyApply(e.polynomials[i + 1], xv))

\* the closure returned by createPolynomialSplineFunction, applied to xv
SplineApply(e, cx, cy, xv) ==
  LET knots2 == Deref(e.xs, cx, cy)
      s      == Arrays_binarySearch(knots2, xv)
      i      == SegmentIndex(s.i, Len(e.polynomials))
  IN  IF s.thrown THEN Thrown
      ELSE Returned(PolyApply(e.polynomials[i + 1], Sub(xv, At(knots2, i))))

\* createPolynomialSplineFunction(knots, polynomials)
createPolynomialSplineFunction(knots, polynomials, cx, cy) ==
  LET knots2 == Slice(knots, cx, cy)
      k      == Deref(knots2, cx, cy)
  IN  IF Len(k) < 2 THEN [err |-> "knots", ev |-> NoEv]
      ELSE IF Len(k) - 1 # Len(polynomials) THEN [err |-> "dimension", ev |-> NoEv]
      ELSE IF MathArrays_checkOrder(k) THEN [err |-> "order", ev |-> NoEv]
      ELSE [err |-> "none",
            ev  |-> [kind |-> "spline", xs |-> knots2, ys |-> NoArray,
                     polynomials |-> polynomials, n |-> Len(k)]]

\* the nearest-neighbor closure with the midpoint given to the left knot
NearestApply_tieLeft(e, cx, cy, xv) ==
  LET xvals2 == Deref(e.xs, cx, cy)
      yvals2 == Deref(e.ys, cx, cy)
      s      == Arrays_binarySearch(xvals2, xv)
      i      == -s.i - 1
      d      == Sub(xv, At(xvals2, i - 1))
      w      == Sub(At(xvals2, i), At(xvals2, i - 1))
  IN  IF s.thrown THEN Thrown
      ELSE IF s.i >= 0 THEN Returned(At(yvals2, s.i))
      ELSE IF i = 0 THEN Returned(At(yvals2, 0))
      ELSE IF i >= e.n THEN Returned(At(yvals2, e.n - 1))
      ELSE IF Le(Add(d, d), w) THEN Returned(At(yvals2, i - 1))
      ELSE Returned(At(yvals2, i))

\* the n >= 2 closure of createNearestNeighborInterpolator, applied to xv
NearestApply(e, cx, cy, xv) ==
  LET xvals2 == Deref(e.xs, cx, cy)
      yvals2 == Deref(e.ys, cx, cy)
      s      == Arrays_binarySearch(xvals2, xv)
      i      == -s.i - 1
      d      == Sub(xv, At(xvals2, i - 1))
      w      == Sub(At(xvals2, i), At(xvals2, i - 1))
  IN  IF s.thrown THEN Thrown
      ELSE IF s.i >= 0 THEN Returned(At(yvals2, s.i))
      ELSE IF i = 0 THEN Returned(At(yvals2, 0))
      ELSE IF i >= e.n THEN Returned(At(yvals2, e.n - 1))
      ELSE IF Lt(Add(d, d), w) THEN Returned(At(yvals2, i - 1))
      ELSE Returned(At(yvals2, i))

\* the evaluator e applied to the query xv
Apply(e, cx, cy, xv) ==
  IF e.kind = "nan" THEN Returned(NaN)
  ELSE IF e.kind = "const" THEN Returned(At(Deref(e.ys, cx, cy), 0))
  ELSE IF e.kind = "nearest" THEN NearestApply(e, cx, cy, xv)
  ELSE SplineApply(e, cx, cy, xv)

-----------------------------------------------------------------------------
(* Constructors.  A constructor call yields [err, ev]: err is the kind of   *)
(* the Error thrown ("dimension", "points", "order", "knots"), or "none"    *)
(* when the call returned the evaluator ev.                                 *)

Failed(kind) == [err |-> kind, ev |-> NoEv]

\* createNearestNeighborInterpolator(xvals, yvals)
createNearestNeighborInterpolator(xvals, yvals, cx, cy) ==
  LET xvals2 == Slice(xvals, cx, cy)
      yvals2 == Slice(yvals, cx, cy)
      n      == Len(Deref(xvals2, cx, cy))
  IN  IF n # Len(Deref(yvals2, cx, cy)) THEN Failed("dimension")
      ELSE IF n = 0
      THEN [err |-> "none",
            ev  |-> [kind |-> "nan", xs |-> NoArray, ys |-> NoArray,
                     polynomials |-> <<>>, n |-> 0]]
      ELSE IF n = 1
      THEN [err |-> "none",
            ev  |-> [kind |-> "const", xs |-> NoArray, ys |-> yvals2,
                     polynomials |-> <<>>, n |-> 1]]
      ELSE IF MathArrays_checkOrder(Deref(xvals2, cx, cy)) THEN Failed("order")
      ELSE [err |-> "none",
            ev  |-> [kind |-> "nearest", xs |-> xvals2, ys |-> yvals2,
                     polynomials |-> <<>>, n |-> n]]

\* createLinearInterpolator with the slope taken to be the rise y[i+1] - y[i]
createLinearInterpolator_rise(xr, yr, cx, cy) ==
  LET xa == Deref(xr, cx, cy)
      ya == Deref(yr, cx, cy)
      n  == Len(xa) - 1
      m(i) == Sub(At(ya, i + 1), At(ya, i))
      poly(i) == createPolynomialFunction(<<At(ya, i), m(i)>>)
  IN  IF Len(xa) # Len(ya) THEN Failed("dimension")
      ELSE IF Len(xa) < 2 THEN Failed("points")
      ELSE IF MathArrays_checkOrder(xa) THEN Failed("order")
      ELSE createPolynomialSplineFunction(xr, [k \in 1..(n) |-> poly(k - 1)], cx, cy)

\* createLinearInterpolator with the number of points checked before the
\* lengths are compared
createLinearInterpolator_pointsFirst(xr, yr, cx, cy) ==
  LET xa == Deref(xr, cx, cy)
      ya == Deref(yr, cx, cy)
      n  == Len(xa) - 1
      m(i) == Div(Sub(At(ya, i + 1), At(ya, i)), Sub(At(xa, i + 1), At(xa, i)))
      poly(i) == createPolynomialFunction(<<At(ya, i), m(i)>>)
  IN  IF Len(xa) < 2 THEN Failed("points")
      ELSE IF Len(xa) # Len(ya) THEN Failed("dimension")
      ELSE IF MathArrays_checkOrder(xa) THEN Failed("order")
      ELSE createPolynomialSplineFunction(xr, [k \in 1..(n) |-> poly(k - 1)], cx, cy)

\* createLinearInterpolator(x, y)
createLinearInterpolator(xr, yr, cx, cy) ==
  LET xa == Deref(xr, cx, cy)
      ya == Deref(yr, cx, cy)
      n  == Len(xa) - 1
      m(i) == Div(Sub(At(ya, i + 1), At(ya, i)), Sub(At(xa, i + 1), At(xa, i)))
      poly(i) == createPolynomialFunction(<<At(ya, i), m(i)>>)
  IN  IF Len(xa) # Len(ya) THEN Failed("dimension")
      ELSE IF Len(xa) < 2 THEN Failed("points")
      ELSE IF MathArrays_checkOrder(xa) THEN Failed("order")
      ELSE createPolynomialSplineFunction(xr, [k \in 1..(n) |-> poly(k - 1)], cx, cy)

\* forward sweep of computeCubicPolyCoefficients, for (i = 1; i < n; i++);
\* mu and z hold the elements 0..i-1 computed so far
RECURSIVE ForwardSweep(_, _, _, _, _, _, _)
ForwardSweep(xa, ya, h, n, i, mu, z) ==
  IF i < n
  THEN LET span == Sub(At(xa, i + 1), At(xa, i - 1))
           g    == Sub(Mul(Num(2), span), Mul(At(h, i - 1), At(mu, i - 1)))
           rhs  == Add(Sub(Mul(At(ya, i + 1), At(h, i - 1)), Mul(At(ya, i), span)),
                       Mul(At(ya, i - 1), At(h, i)))
           zi   == Div(Sub(Div(Mul(Num(3), rhs), Mul(At(h, i - 1), At(h, i))),
                           Mul(At(h, i - 1), At(z, i - 1))), g)
       IN  ForwardSweep(xa, ya, h, n, i + 1,
                        Append(mu, Div(At(h, i), g)), Append(z, zi))
  ELSE [mu |-> mu, z |-> z]

\* back substitution of computeCubicPolyCoefficients, for (j = n - 1; j >= 0; j--);
\* c holds the elements j+1..n, b and d the elements j+1..n-1 computed so far
RECURSIVE BackSubstitution(_, _, _, _, _, _, _, _)
BackSubstitution(ya, h, mu, z, j, b, c, d) ==
  IF j >= 0
  THEN LET cP == Head(c)
           cj == Sub(At(z, j), Mul(At(mu, j), cP))
           bj == Sub(Div(Sub(At(ya, j + 1), At(ya, j)), At(h, j)),
                     Div(Mul(At(h, j), Add(cP, Mul(Num(2), cj))), Num(3)))
           dj == Div(Sub(cP, cj), Mul(Num(3), At(h, j)))
       IN  BackSubstitution(ya, h, mu, z, j - 1, <<bj>> \o b, <<cj>> \o c, <<dj>> \o d)
  ELSE [err |-> "none", b |-> b, c |-> c, d |-> d]

\* computeCubicPolyCoefficients(x, y): the coefficient arrays b, c, d, or
\* the error thrown
computeCubicPolyCoefficients(xa, ya) ==
  LET n    == Len(xa) - 1
      hh(i) == Sub(At(xa, i + 1), At(xa, i))
      h    == [k \in 1..(n) |-> hh(k - 1)]
      fw   == ForwardSweep(xa, ya, h, n, 1, <<Num(0)>>, <<Num(0)>>)
      bad(kind) == [err |-> kind, b |-> <<>>, c |-> <<>>, d |-> <<>>]
  IN  IF Len(xa) # Len(ya) THEN bad("dimension")
      ELSE IF Len(xa) < 3 THEN bad("points")
      ELSE IF MathArrays_checkOrder(xa) THEN bad("order")
      ELSE BackSubstitution(ya, h, fw.mu, fw.z, n - 1, <<>>, <<Num(0)>>, <<>>)

\* the polynomial of segment i of the cubic spline with coefficients co
CubicPoly(ya, co, i) ==
  createPolynomialFunction(<<At(ya, i), At(co.b, i), At(co.c, i), At(co.d, i)>>)

\* createCubicSplineInterpolator(x, y)
createCubicSplineInterpolator(xr, yr, cx, cy) ==
  LET xa == Deref(xr, cx, cy)
      ya == Deref(yr, cx, cy)
      co == computeCubicPolyCoefficients(xa, ya)
      n  == Len(xa) - 1
      poly(i) == CubicPoly(ya, co, i)
  IN  IF co.err # "none" THEN Failed(co.err)
      ELSE createPolynomialSplineFunction(xr, [k \in 1..(n) |-> poly(k - 1)], cx, cy)

\* differentiateThreePoint(xvals, yvals, indexOfDifferentiation,
\*    indexOfFirstSample, indexOfSecondsample, indexOfThirdSample)
differentiateThreePoint(xa, ya, iD, i1, i2, i3) ==
  LET x0 == At(ya, i1)
      x1 == At(ya, i2)
      x2 == At(ya, i3)
      t  == Sub(At(xa, iD), At(xa, i1))
      t1 == Sub(At(xa, i2), At(xa, i1))
      t2 == Sub(At(xa, i3), At(xa, i1))
      a  == Div(Sub(Sub(x2, x0), Mul(Div(t2, t1), Sub(x1, x0))),
                Sub(Mul(t2, t2), Mul(t1, t2)))
      b  == Div(Sub(Sub(x1, x0), Mul(Mul(a, t1), t1)), t1)
  IN  Add(Mul(Mul(Num(2), a), t), b)

\* interpolateHermiteSorted(xvals, yvals, firstDerivatives)
interpolateHermiteSorted(xr, yr, firstDerivatives, cx, cy) ==
  LET xa == Deref(xr, cx, cy)
      ya == Deref(yr, cx, cy)
      n  == Len(xa)
      poly(i) ==
        LET w   == Sub(At(xa, i + 1), At(xa, i))
            w2  == Mul(w, w)
            yv  == At(ya, i)
            yvP == At(ya, i + 1)
            fd  == At(firstDerivatives, i)
            fdP == At(firstDerivatives, i + 1)
        IN  createPolynomialFunction(
              << yv,
                 fd,
                 Div(Sub(Sub(Div(Mul(Num(3), Sub(yvP, yv)), w), Mul(Num(2), fd)), fdP), w),
                 Div(Add(Add(Div(Mul(Num(2), Sub(yv, yvP)), w), fd), fdP), w2) >>)
  IN  IF n # Len(ya) \/ n # Len(firstDerivatives) THEN Failed("dimension")
      ELSE IF n < 2 THEN Failed("points")
      ELSE createPolynomialSplineFunction(xr, [k \in 1..(n - 1) |-> poly(k - 1)], cx, cy)

\* a minimum number of points that is one too small
MINIMUM_NUMBER_POINTS_four == 5 - 1

\* the minimum number of points of the Akima algorithm
MINIMUM_NUMBER_POINTS == 5

\* createAkimaSplineInterpolator(xvals, yvals)
createAkimaSplineInterpolator(xr, yr, cx, cy) ==
  LET xa == Deref(xr, cx, cy)
      ya == Deref(yr, cx, cy)
      n  == Len(xa)
      diff(i) == Div(Sub(At(ya, i + 1), At(ya, i)), Sub(At(xa, i + 1), At(xa, i)))
      differences == [k \in 1..(n - 1) |-> diff(k - 1)]
      wgt(i) == IF i >= 1
                THEN MathAbs(Sub(At(differences, i), At(differences, i - 1)))
                ELSE Num(0)
      weights == [k \in 1..(n - 1) |-> wgt(k - 1)]
      fdv(i) ==
        IF i = 0 THEN differentiateThreePoint(xa, ya, 0, 0, 1, 2)
        ELSE IF i = 1 THEN differentiateThreePoint(xa, ya, 1, 0, 1, 2)
        ELSE IF i = n - 2 THEN differentiateThreePoint(xa, ya, n - 2, n - 3, n - 2, n - 1)
        ELSE IF i = n - 1 THEN differentiateThreePoint(xa, ya, n - 1, n - 3, n - 2, n - 1)
        ELSE LET wP == At(weights, i + 1)
                 wM == At(weights, i - 1)
             IN  IF LtEpsilon(MathAbs(wP)) /\ LtEpsilon(MathAbs(wM))
                 THEN LET xv  == At(xa, i)
                          xvP == At(xa, i + 1)
                          xvM == At(xa, i - 1)
                      IN  Div(Add(Mul(Sub(xvP, xv), At(differences, i - 1)),
                                  Mul(Sub(xv, xvM), At(differences, i))),
                              Sub(xvP, xvM))
                 ELSE Div(Add(Mul(wP, At(differences, i - 1)),
                              Mul(wM, At(differences, i))),
                          Add(wP, wM))
      firstDerivatives == [k \in 1..(n) |-> fdv(k - 1)]
  IN  IF n # Len(ya) THEN Failed("dimension")
      ELSE IF n < MINIMUM_NUMBER_POINTS THEN Failed("points")
      ELSE IF MathArrays_checkOrder(xa) THEN Failed("order")
      ELSE interpolateHermiteSorted(xr, yr, firstDerivatives, cx, cy)

\* the first loop of cubicSplineInterpolate: TRUE iff the binary search
\* throws for some query point
BatchSearchThrows(xa, xqa) ==
  \E k \in 0..(Len(xqa) - 1) : Arrays_binarySearch(xa, At(xqa, k)).thrown

\* idx of the first loop of cubicSplineInterpolate for the query point xv
BatchSegment(xa, xv) == SegmentIndex(Arrays_binarySearch(xa, xv).i, Len(xa) - 1)

\* the x element the inner forEach callback (xq, i) subtracts for the query
\* point number k of segment seg: its parameter i, the query's position in
\* xqSubArr, hides the segment index i of the outer callback
BatchOrigin(xa, seg, k) == At(xa, k)

\* cubicSplineInterpolate(x, y, xq): the results array, or the error thrown
cubicSplineInterpolate(xa, ya, xqa) ==
  LET co == computeCubicPolyCoefficients(xa, ya)
      r(k) == LET seg == BatchSegment(xa, At(xqa, k))
              IN  PolyApply(CubicPoly(ya, co, seg),
                            Sub(At(xqa, k), BatchOrigin(xa, seg, k)))
  IN  IF co.err # "none" THEN [err |-> co.err, results |-> <<>>]
      ELSE IF BatchSearchThrows(xa, xqa) THEN [err |-> "invalid", results |-> <<>>]
      ELSE [err |-> "none", results |-> [k \in 1..(Len(xqa)) |-> r(k - 1)]]

-----------------------------------------------------------------------------
(* Inputs *)

\* the elements of the finite set S of integers in increasing order
RECURSIVE SortedSeq(_)
SortedSeq(S) ==
  IF S = {} THEN <<>>
  ELSE LET m == CHOOSE a \in S : \A b \in S : a <= b
       IN  <<Num(m)>> \o SortedSeq(S \ {m})

XValues == {Num(v) : v \in 0..MaxX}
YValues == {Num(v) : v \in 0..MaxY}

\* strictly increasing x arrays
SampleX == {SortedSeq(S) : S \in SUBSET (0..MaxX)}

\* query points: the knots, the midpoints between them, a point below and a
\* point above all knots, and NaN
Queries == {Rat(k, 2) : k \in (-1)..(2 * MaxX + 1)} \cup {NaN}

\* query points of cubicSplineInterpolate: below the knots, the first knots
\* and midpoints, above the knots, and NaN
BatchPoints == {Rat(k, 2) : k \in (-1)..3} \cup {Num(MaxX + 1), NaN}

\* query arrays of cubicSplineInterpolate, in any order and with duplicates
BatchQueries == UNION {[1..k -> BatchPoints] : k \in 0..MaxBatch}

-----------------------------------------------------------------------------------------------------------------------------------------------------
(* State:                                                                   *)
(*   x, y  the caller's sample arrays                                       *)
(*   xq    the caller's array of query points for cubicSplineInterpolate    *)
(*   ev    the evaluator the caller holds (NoEv when the last constructor   *)
(*         call threw, or none was made)                                    *)
(*   op    the last call made, q its query points, res the values it        *)
(*         returned, err the kind of Error it threw ("none" if it returned) *)

Idle == /\ ev = NoEv /\ err = "none" /\ q = <<>> /\ res = <<>>
        /\ op = "init"

\* y arrays of length m whose values step by a fixed amount, wrapping
\* around after MaxY: constant, rising and zigzag shapes
SampleY(m) ==
  {[i \in 1..m |-> Num((a + b * (i - 1)) % (MaxY + 1))] : a, b \in 0..MaxY}

\* valid sample sets
Init == /\ x \in SampleX
        /\ y \in SampleY(Len(x))
        /\ xq = <<>>
        /\ Idle

\* a constructor call with outcome r
Construct(name, r) ==
  /\ ev' = r.ev
  /\ err' = r.err
  /\ op' = name
  /\ q' = <<>>
  /\ res' = <<>>
  /\ UNCHANGED <<x, y, xq>>

CreateNearestNeighbor ==
  Construct("createNearestNeighborInterpolator",
            createNearestNeighborInterpolator(CallerX, CallerY, x, y))

CreateLinear ==
  Construct("createLinearInterpolator",
            createLinearInterpolator(CallerX, CallerY, x, y))

CreateCubicSpline ==
  Construct("createCubicSplineInterpolator",
            createCubicSplineInterpolator(CallerX, CallerY, x, y))

CreateAkimaSpline ==
  Construct("createAkimaSplineInterpolator",
            createAkimaSplineInterpolator(CallerX, CallerY, x, y))

\* the caller applies the evaluator it holds to xv
Evaluate(xv) ==
  /\ ev.kind # "none"
  /\ LET r == Apply(ev, x, y, xv)
     IN  /\ err' = IF r.thrown THEN "invalid" ELSE "none"
         /\ res' = IF r.thrown THEN <<>> ELSE <<r.val>>
  /\ q' = <<xv>>
  /\ op' = "evaluate"
  /\ UNCHANGED <<x, y, xq, ev>>

\* the caller calls cubicSplineInterpolate(x, y, xq)
Batch ==
  /\ LET r == cubicSplineInterpolate(x, y, xq)
     IN  /\ err' = r.err
         /\ res' = r.results
  /\ q' = xq
  /\ op' = "cubicSplineInterpolate"
  /\ UNCHANGED <<x, y, xq, ev>>

Next ==
  \/ CreateNearestNeighbor
  \/ CreateLinear
  \/ CreateCubicSpline
  \/ CreateAkimaSpline
  \/ \E xv \in Queries : Evaluate(xv)

Spec == Init /\ [][Next]_vars

-----------------------------------------------------------------------------
(* Constructor and batch calls on arbitrary arrays *)

\* y arrays 0, 1, ..., MaxY, 0, 1, ... of length m
ZigZag(m) == [i \in 1..m |-> Num((i - 1) % (MaxY + 1))]

\* x arrays that are strictly increasing, or one write away from it: one
\* element repeats the value of its right neighbour (x[i] = x[i+1]) or of
\* the last element (x[i] > x[i+1])
InputX == SampleX \cup
          {[s EXCEPT ![i] = s[j]] : <<s, i, j>> \in
             {t \in SampleX \X (1..(MaxX + 1)) \X (1..(MaxX + 1)) :
                /\ t[2] < Len(t[1])
                /\ t[3] \in {t[2] + 1, Len(t[1])}}}

InitCtor == /\ x \in InputX
            /\ \E m \in {Len(x), Len(x) + 1} : y = ZigZag(m)
            /\ xq \in BatchQueries
            /\ Idle

NextCtor ==
  \/ CreateNearestNeighbor
  \/ CreateLinear
  \/ CreateCubicSpline
  \/ CreateAkimaSpline
  \/ Batch

SpecCtor == InitCtor /\ [][NextCtor]_vars

-----------------------------------------------------------------------------
(* The caller writes to its arrays between calls *)

\* the caller overwrites every element of its x array with v (x.fill(v))
WriteX(v) ==
  /\ x' = [i \in 1..Len(x) |-> v]
  /\ op' = "write"
  /\ err' = "none"
  /\ q' = <<>>
  /\ res' = <<>>
  /\ UNCHANGED <<y, xq, ev>>

\* the caller overwrites every element of its y array with v (y.fill(v))
WriteY(v) ==
  /\ y' = [i \in 1..Len(y) |-> v]
  /\ op' = "write"
  /\ err' = "none"
  /\ q' = <<>>
  /\ res' = <<>>
  /\ UNCHANGED <<x, xq, ev>>

\* the sample sets with knots 0, 1, ..., n-1
InitFrame == /\ \E n \in 0..(MaxX + 1) : x = [i \in 1..n |-> Num(i - 1)]
             /\ y = ZigZag(Len(x))
             /\ xq = <<>>
             /\ Idle

NextFrame ==
  \/ CreateNearestNeighbor
  \/ CreateLinear
  \/ CreateCubicSpline
  \/ CreateAkimaSpline
  \/ \E xv \in Queries : Evaluate(xv)
  \/ \E v \in XValues : WriteX(v)
  \/ \E v \in YValues : WriteY(v)

SpecFrame == InitFrame /\ [][NextFrame]_vars

-----------------------------------------------------------------------------
(* Binary search on its own *)

\* Arrays_binarySearch(x, key) is called
Search(key) ==
  /\ LET r == Arrays_binarySearch(x, key)
     IN  /\ err' = IF r.thrown THEN "invalid" ELSE "none"
         /\ res' = IF r.thrown THEN <<>> ELSE <<Num(r.i)>>
  /\ q' = <<key>>
  /\ op' = "Arrays_binarySearch"
  /\ UNCHANGED <<x, y, xq, ev>>

InitSearch == /\ x \in SampleX
              /\ y = <<>>
              /\ xq = <<>>
              /\ Idle

NextSearch == \E key \in Queries : Search(key)

SpecSearch == InitSearch /\ [][NextSearch]_vars

-----------------------------------------------------------------------------
(* Polynomial functions on their own: the caller's array x holds the        *)
(* coefficients c handed to createPolynomialFunction.  The evaluator of     *)
(* kind "poly" is the closure returned: it captures xs = c2 and n.          *)

\* createPolynomialFunction(c) called with a reference to the array c
createPolynomialClosure(cr, cx, cy) ==
  LET c2 == Slice(cr, cx, cy)
      p  == createPolynomialFunction(Deref(c2, cx, cy))
  IN  IF p.thrown THEN Failed("empty")
      ELSE [err |-> "none",
            ev  |-> [kind |-> "poly", xs |-> c2, ys |-> NoArray,
                     polynomials |-> <<>>, n |-> p.n]]

\* the closure returned by createPolynomialFunction, applied to xv
PolyClosureApply(e, cx, cy, xv) ==
  PolyApply([c2 |-> Deref(e.xs, cx, cy), n |-> e.n], xv)

CreatePolynomial ==
  Construct("createPolynomialFunction", createPolynomialClosure(CallerX, x, y))

\* the caller applies the polynomial function it holds to xv
EvaluatePolynomial(xv) ==
  /\ ev.kind = "poly"
  /\ res' = <<PolyClosureApply(ev, x, y, xv)>>
  /\ err' = "none"
  /\ q' = <<xv>>
  /\ op' = "evaluatePolynomial"
  /\ UNCHANGED <<x, y, xq, ev>>

\* coefficient arrays: up to MaxX coefficients with values 0..MaxY
InitPoly == /\ x \in UNION {[1..k -> YValues] : k \in 0..MaxX}
            /\ y = <<>>
            /\ xq = <<>>
            /\ Idle

NextPoly ==
  \/ CreatePolynomial
  \/ \E xv \in Queries : EvaluatePolynomial(xv)
  \/ \E v \in YValues : WriteX(v)

SpecPoly == InitPoly /\ [][NextPoly]_vars

-----------------------------------------------------------------------------
(* Properties *)

Constructors == {"createNearestNeighborInterpolator", "createLinearInterpolator",
                 "createCubicSplineInterpolator", "createAkimaSplineInterpolator"}

\* some x[i] <= x[i-1]
HasDescent(xa) == \E i \in 2..Len(xa) : Le(xa[i], xa[i - 1])

\* the method's minimum number of points
MinPoints(name) ==
  CASE name = "createLinearInterpolator" -> 2
    [] name = "createCubicSplineInterpolator" -> 3
    [] name = "cubicSplineInterpolate" -> 3
    [] name = "createAkimaSplineInterpolator" -> 5
    [] OTHER -> 0

\* C1 (as claimed): whenever cubicSplineInterpolate(x, y, xq) returns, its
\* result has one value per query point and the value at every index k is
\* the one the evaluator of createCubicSplineInterpolator(x, y) returns for
\* xq[k].
C1_BatchMatchesClosure ==
  (op = "cubicSplineInterpolate" /\ err = "none") =>
     LET c == createCubicSplineInterpolator(CallerX, CallerY, x, y).ev
     IN  /\ Len(res) = Len(q)
         /\ \A k \in 1..Len(q) : Apply(c, x, y, q[k]) = Returned(res[k])

\* C4 (as claimed): a constructor called with equal-length arrays and an x
\* with some x[i] <= x[i-1] fails with the order error.
C4_OrderErrorAlways ==
  (op \in Constructors /\ Len(x) = Len(y) /\ HasDescent(x)) => err = "order"

\* C4 (amended): a constructor called with equal-length arrays and an x with
\* some x[i] <= x[i-1] returns no evaluator; it fails with the order error
\* when the number of points reaches the method's minimum and with the
\* too-few-points error when it does not (so x = [1, 1, 2] gives the order
\* error for nearest-neighbor, linear and cubic, too-few-points for Akima).
C4_OrderErrorIfEnoughPoints ==
  (op \in Constructors /\ Len(x) = Len(y) /\ HasDescent(x)) =>
     /\ ev = NoEv
     /\ err = IF Len(x) < MinPoints(op) THEN "points" ELSE "order"

\* C4 witness: the cubic constructor rejected x = [1, 1, 2] with the order
\* error
C4_Witness ==
  /\ op = "createCubicSplineInterpolator"
  /\ x = <<Num(1), Num(1), Num(2)>>
  /\ Len(y) = 3
  /\ err = "order"

\* C5: a constructor or cubicSplineInterpolate called with x and y of
\* different lengths fails with the dimension-mismatch error, whatever else
\* is wrong with the input, and returns no evaluator and no results.
C5_DimensionMismatchFirst ==
  /\ (op \in Constructors /\ Len(x) # Len(y)) =>
        (err = "dimension" /\ ev = NoEv)
  /\ (op = "cubicSplineInterpolate" /\ Len(x) # Len(y)) =>
        (err = "dimension" /\ res = <<>>)

\* C5 witness: the Akima constructor reported the dimension mismatch for an
\* input that also has too few points and is out of order
C5_Witness ==
  /\ op = "createAkimaSplineInterpolator"
  /\ Len(x) = 3 /\ Len(y) = 4
  /\ HasDescent(x)
  /\ err = "dimension"

\* C8: with x and y of equal length n, a call fails with the too-few-points
\* error exactly when n is below the method's minimum (2 linear, 3 cubic and
\* batch cubic, 5 Akima), and then no evaluator is returned; the
\* nearest-neighbor constructor never raises it.
C8_TooFewPoints ==
  /\ (op \in Constructors \cup {"cubicSplineInterpolate"} /\ Len(x) = Len(y)) =>
        ((err = "points") <=> (Len(x) < MinPoints(op)))
  /\ (op \in Constructors /\ err = "points") => ev = NoEv
  /\ (op = "cubicSplineInterpolate" /\ err = "points") => res = <<>>
  /\ (op = "createNearestNeighborInterpolator") => err # "points"

\* C8 witness: the Akima constructor rejected four strictly increasing
\* points
C8_Witness ==
  /\ op = "createAkimaSplineInterpolator"
  /\ Len(x) = 4 /\ Len(y) = 4 /\ ~HasDescent(x)
  /\ err = "points"

\* C2: an evaluator built from a valid sample set and applied to a knot
\* x[i] returns y[i], for every knot including the last one.
C2_KnotValues ==
  (op = "evaluate" /\ err = "none") =>
     \A i \in 1..Len(x) : (q[1] = x[i]) => res = <<y[i]>>

\* C2 witness: a spline evaluator over five knots whose last segment is a
\* cubic was applied to the last knot and returned the last y value
C2_Witness ==
  /\ op = "evaluate"
  /\ ev.kind = "spline"
  /\ Len(x) = 5
  /\ q = <<x[5]>>
  /\ ev.polynomials[4].n = 4
  /\ y[5] # y[4]
  /\ res = <<y[5]>>

\* the evaluator held is the one createLinearInterpolator returns for x, y
IsLinearEv ==
  LET r == createLinearInterpolator(CallerX, CallerY, x, y)
  IN  r.err = "none" /\ ev = r.ev

\* C3: the linear evaluator applied to a query q with x[i] <= q <= x[i+1]
\* returns y[i] + (q - x[i]) * (y[i+1] - y[i]) / (x[i+1] - x[i]), for every
\* segment i that contains q.
C3_LinearBlend ==
  (op = "evaluate" /\ IsLinearEv) =>
     \A i \in 1..(Len(x) - 1) :
        (Le(x[i], q[1]) /\ Le(q[1], x[i + 1])) =>
           res = << Add(y[i], Div(Mul(Sub(q[1], x[i]), Sub(y[i + 1], y[i])),
                                  Sub(x[i + 1], x[i]))) >>

\* C3 witness: the linear evaluator was applied to the midpoint of a segment
\* of width 2 with different end values (as in [0,2], [0,10] at 1)
C3_Witness ==
  /\ op = "evaluate"
  /\ IsLinearEv
  /\ x = <<Num(0), Num(2)>>
  /\ y = <<Num(0), Num(1)>>
  /\ q = <<Num(1)>>
  /\ res = <<Rat(1, 2)>>

\* |a - b|
Dist(a, b) == MathAbs(Sub(a, b))

\* the position of the knot closest to qv, the right one of two knots at
\* the same distance
Closest(xa, qv) ==
  CHOOSE k \in 1..Len(xa) :
    \A j \in (1..Len(xa)) \ {k} :
       \/ Lt(Dist(xa[k], qv), Dist(xa[j], qv))
       \/ (Eq(Dist(xa[k], qv), Dist(xa[j], qv)) /\ k > j)

\* C6: the nearest-neighbor constructor returns for n = 0 an evaluator that
\* yields NaN, for n = 1 one that yields y[0], and for n >= 2 one that
\* yields, for a query that is a number, the y value of the closest knot
\* (y[0] below the knots, y[n-1] above them, the right knot's y midway
\* between two knots).
C6_Nearest ==
  /\ (op = "createNearestNeighborInterpolator" /\ err = "none") =>
        ev.kind = IF Len(x) = 0 THEN "nan" ELSE IF Len(x) = 1 THEN "const" ELSE "nearest"
  /\ (op = "evaluate" /\ ev.kind = "nan") => (err = "none" /\ res = <<NaN>>)
  /\ (op = "evaluate" /\ ev.kind = "const") => (err = "none" /\ res = <<y[1]>>)
  /\ (op = "evaluate" /\ ev.kind = "nearest" /\ ~IsNaN(q[1])) =>
        (err = "none" /\ res = <<y[Closest(x, q[1])]>>)

\* C6 witness: a nearest-neighbor evaluator was applied to the midpoint of
\* two knots with different y values and returned the right knot's value
C6_Witness ==
  /\ op = "evaluate"
  /\ ev.kind = "nearest"
  /\ \E i \in 1..(Len(x) - 1) :
        /\ q = <<Div(Add(x[i], x[i + 1]), Num(2))>>
        /\ y[i] # y[i + 1]
        /\ res = <<y[i + 1]>>

\* C7: a write of the caller to its arrays and an evaluation leave the
\* evaluator and the value it returns for every query unchanged, and an
\* evaluation changes neither of the caller's arrays.
C7_Frame ==
  [][ /\ (op' = "write" /\ ev.kind # "none") =>
           /\ ev' = ev
           /\ \A xv \in Queries : Apply(ev', x', y', xv) = Apply(ev, x, y, xv)
      /\ (op' = "evaluate") =>
           (ev' = ev /\ x' = x /\ y' = y) ]_vars

\* C7 witness: a spline evaluator was applied after the caller overwrote
\* the x array it had passed to the constructor
C7_Witness ==
  /\ op = "evaluate"
  /\ ev.kind = "spline"
  /\ Deref(ev.xs, x, y) # x
  /\ err = "none"

\* C9: for a strictly increasing array and a key that is a number,
\* Arrays_binarySearch returns the index of the key if it is present and
\* otherwise -(p + 1), p being the index of the first element greater than
\* the key or the length if there is none.
C9_BinarySearch ==
  (op = "Arrays_binarySearch" /\ ~IsNaN(q[1])) =>
     /\ err = "none"
     /\ Len(res) = 1
     /\ LET key == q[1]
            r   == res[1][1]
            greater == {i \in 1..Len(x) : Lt(key, x[i])}
            p   == IF greater = {} THEN Len(x)
                   ELSE (CHOOSE i \in greater : \A j \in greater : i <= j) - 1
        IN  /\ res[1][2] = 1
            /\ (\E i \in 1..Len(x) : x[i] = key) <=> (r >= 0)
            /\ \A i \in 1..Len(x) : (x[i] = key) => (r = i - 1)
            /\ (\A i \in 1..Len(x) : x[i] # key) => (r = -(p + 1))

\* C9 witness: a key lying between the second and the third element of an
\* array was searched and -3 returned
C9_Witness ==
  /\ op = "Arrays_binarySearch"
  /\ Len(x) >= 3
  /\ Lt(x[2], q[1]) /\ Lt(q[1], x[3])
  /\ res = <<Num(-3)>>

\* the 0-based index of the segment a query belongs to: 0 below the first
\* knot, the last segment from the last knot on, otherwise the index of the
\* largest knot <= qv
ExpectedSegment(knots, qv) ==
  LET m == Len(knots)
  IN  IF Lt(qv, knots[1]) THEN 0
      ELSE IF Le(knots[m], qv) THEN m - 2
      ELSE (CHOOSE i \in 1..(m - 1) : Le(knots[i], qv) /\ Lt(qv, knots[i + 1])) - 1

\* C10: a spline evaluator over m knots uses for a query the segment index
\* above, which lies in 0..m-2, and returns that segment's polynomial
\* evaluated at the query minus the segment's left knot.
C10_Segment ==
  (op = "evaluate" /\ ev.kind = "spline" /\ err = "none") =>
     LET knots == Deref(ev.xs, x, y)
         m     == Len(knots)
         e     == ExpectedSegment(knots, q[1])
     IN  /\ m >= 2 /\ Len(ev.polynomials) = m - 1
         /\ e \in 0..(m - 2)
         /\ SegmentIndex(Arrays_binarySearch(knots, q[1]).i, Len(ev.polynomials)) = e
         /\ res = <<PolyApply(ev.polynomials[e + 1], Sub(q[1], knots[e + 1]))>>

\* C10 witness: a spline evaluator over at least three knots was applied to
\* a query strictly inside the second segment, whose polynomial is not
\* constant
C10_Witness ==
  /\ op = "evaluate"
  /\ ev.kind = "spline"
  /\ Len(x) >= 3
  /\ Lt(x[2], q[1]) /\ Lt(q[1], x[3])
  /\ ev.polynomials[2].n >= 2
  /\ err = "none"

\* a to the power k
RECURSIVE Pow(_, _)
Pow(a, k) == IF k = 0 THEN Num(1) ELSE Mul(a, Pow(a, k - 1))

\* c[0] + c[1] * xv + ... + c[k-1] * xv^(k-1) for the first k coefficients
RECURSIVE PowerSum(_, _, _)
PowerSum(c, xv, k) ==
  IF k = 0 THEN Num(0)
  ELSE Add(PowerSum(c, xv, k - 1), Mul(c[k], Pow(xv, k - 1)))

\* the number of coefficients up to the highest nonzero one, 1 if all are 0
SignificantCoefficients(c) ==
  LET nz == {k \in 1..Len(c) : c[k] # Num(0)}
  IN  IF nz = {} THEN 1 ELSE CHOOSE k \in nz : \A j \in nz : j <= k

\* C11: createPolynomialFunction(c) throws the empty-coefficients error for
\* an empty c; otherwise the function it returns uses the coefficients up to
\* the highest nonzero one and gives, for every x, the sum of c[k] * x^k over
\* those coefficients, which for every x that is a number is the sum over all
\* coefficients (0 for an all-zero c); applying the function returns that
\* value and changes nothing, and a later write to c does not change the
\* function.
C11_Polynomial ==
  [][ /\ (op' = "createPolynomialFunction" /\ Len(x) = 0) =>
           (err' = "empty" /\ ev' = NoEv)
      /\ (op' = "createPolynomialFunction" /\ Len(x) > 0) =>
           /\ err' = "none"
           /\ ev'.n = SignificantCoefficients(x)
           /\ \A xv \in Queries :
                 PolyClosureApply(ev', x', y', xv) = PowerSum(x, xv, ev'.n)
           /\ \A xv \in Queries \ {NaN} :
                 PolyClosureApply(ev', x', y', xv) = PowerSum(x, xv, Len(x))
      /\ (op' = "evaluatePolynomial") =>
           /\ ev' = ev /\ x' = x
           /\ res' = <<PolyClosureApply(ev, x, y, q'[1])>>
      /\ (op' = "write" /\ ev.kind = "poly") =>
           /\ ev' = ev
           /\ \A xv \in Queries :
                 PolyClosureApply(ev', x', y', xv) = PolyClosureApply(ev, x, y, xv)
    ]_vars

\* C11 witness: a polynomial function built from coefficients with a
\* trailing zero and a nonzero linear or higher term was applied, after the
\* caller overwrote the coefficient array, and returned a value other than 0
C11_Witness ==
  /\ op = "evaluatePolynomial"
  /\ ev.n >= 2
  /\ ev.n < Len(x)
  /\ Deref(ev.xs, x, y) # x
  /\ res # <<Num(0)>>

====
